---- MODULE Spec2Model ----
(***************************************************************************)
(* Animated Tower of Hanoi (src/main.py): the move generator, the geometry *)
(* helpers, the disk sizing, the per-frame animation of one move, run()'s  *)
(* loop and the outer replay loop of __main__.                             *)
(*                                                                         *)
(* Peg indices and moves keep the source's 0-based numbering; TLA+         *)
(* sequences are 1-based, so pegs[p + 1] is the source's pegs[p] and       *)
(* moves[k + 1] is the source's moves[k].                                  *)
(***************************************************************************)
EXTENDS Integers, Sequences, FiniteSets, TLC

(***************************************************************************)
(* Bounds of the model.                                                    *)
(***************************************************************************)
\* largest --num-disks value the replay specification draws
MaxRequested == 5
\* the clamp is applied to requests in -MaxExcess .. 2*palette + MaxExcess
MaxExcess == 30
\* largest total_disks for which Disk() is applied
MaxTotalDisks == 173
\* largest n for which the generator is materialized
MaxHanoiN == 4
\* peg_positions is applied to the small widths 0..MaxPegWidth (and screen widths)
MaxPegWidth == 12
\* ... the small margins 0..MaxPegMargin (and the program's margins)
MaxPegMargin == 4
\* ... and the counts 2..MaxPegCount
MaxPegCount == 4

(***************************************************************************)
(* Configurable parameters (src/main.py lines 13-40).                      *)
(***************************************************************************)
MARGIN == 100
DISK_MIN_WIDTH == 70
DISK_MAX_WIDTH == 240
DISK_HEIGHT == 20
DISK_COLORS ==
    << <<244, 67, 54>>, <<33, 150, 243>>, <<76, 175, 80>>, <<255, 235, 59>>,
       <<156, 39, 176>>, <<255, 152, 0>>, <<0, 188, 212>>, <<121, 85, 72>>,
       <<139, 195, 74>>, <<63, 81, 181>>, <<0, 150, 136>>, <<205, 220, 57>> >>
LIFT_HEIGHT == 160
H_SPEED == 24
V_SPEED == 28
PEG_COUNT == 3
BASE_HEIGHT == 12
\* the literal 300 of carry_y (and of the drawn peg height)
PEG_HEIGHT == 300

\* the display sizes pygame.display.Info() may report (lines 8-12)
Screens == { <<1920, 1080>>, <<1366, 768>>, <<1360, 768>> }

\* the values of args.num_disks the replay specification draws (line 275)
RequestedDisks == (-1)..MaxRequested

(***************************************************************************)
(* Python builtins used by the source.                                     *)
(***************************************************************************)
max(a, b) == IF a >= b THEN a ELSE b
min(a, b) == IF a <= b THEN a ELSE b
abs(a) == IF a >= 0 THEN a ELSE -a

(***************************************************************************)
(* Data structures.                                                        *)
(***************************************************************************)
\* mutant: t divides by total_disks instead of total_disks - 1
Disk_total(size_index, total_disks) ==
    [ width  |-> IF total_disks > 1
                 THEN DISK_MIN_WIDTH
                      + (size_index * (DISK_MAX_WIDTH - DISK_MIN_WIDTH))
                        \div total_disks
                 ELSE DISK_MIN_WIDTH,
      height |-> DISK_HEIGHT,
      color  |-> DISK_COLORS[(size_index % Len(DISK_COLORS)) + 1] ]

\* Disk.__init__: t = size_index / (total_disks - 1) is a float and
\* int(DISK_MIN_WIDTH + t * (DISK_MAX_WIDTH - DISK_MIN_WIDTH)) truncates.
\* For every 0 <= size_index < total_disks < 400 the IEEE double result
\* equals the exact floor computed here (checked exhaustively in Python).
Disk(size_index, total_disks) ==
    [ width  |-> IF total_disks > 1
                 THEN DISK_MIN_WIDTH
                      + (size_index * (DISK_MAX_WIDTH - DISK_MIN_WIDTH))
                        \div (total_disks - 1)
                 ELSE DISK_MIN_WIDTH,
      height |-> DISK_HEIGHT,
      color  |-> DISK_COLORS[(size_index % Len(DISK_COLORS)) + 1] ]

\* the value of the local `disk` while no disk is in flight
NoDisk == [ width |-> 0, height |-> 0, color |-> <<0, 0, 0>> ]

Peg(x, base_y) == [ x |-> x, base_y |-> base_y, stack |-> <<>> ]

(***************************************************************************)
(* Tower of Hanoi move generator.                                          *)
(***************************************************************************)
\* mutant: the first recursive call keeps aux and dst in place
RECURSIVE hanoi_moves_noswap(_, _, _, _)
hanoi_moves_noswap(n, src, aux, dst) ==
    IF n <= 0
    THEN <<>>
    ELSE hanoi_moves_noswap(n - 1, src, aux, dst)
         \o << <<src, dst>> >>
         \o hanoi_moves_noswap(n - 1, aux, src, dst)

\* mutant: the base case is n <= 1
RECURSIVE hanoi_moves_base1(_, _, _, _)
hanoi_moves_base1(n, src, aux, dst) ==
    IF n <= 1
    THEN <<>>
    ELSE hanoi_moves_base1(n - 1, src, dst, aux)
         \o << <<src, dst>> >>
         \o hanoi_moves_base1(n - 1, aux, src, dst)

\* mutant: the second recursive call starts from src instead of aux
RECURSIVE hanoi_moves_second(_, _, _, _)
hanoi_moves_second(n, src, aux, dst) ==
    IF n <= 0
    THEN <<>>
    ELSE hanoi_moves_second(n - 1, src, dst, aux)
         \o << <<src, dst>> >>
         \o hanoi_moves_second(n - 1, src, aux, dst)

RECURSIVE hanoi_moves(_, _, _, _)
hanoi_moves(n, src, aux, dst) ==
    IF n <= 0
    THEN <<>>
    ELSE hanoi_moves(n - 1, src, dst, aux)
         \o << <<src, dst>> >>
         \o hanoi_moves(n - 1, aux, src, dst)

(***************************************************************************)
(* Geometry helpers.                                                       *)
(***************************************************************************)
\* returns <<left_x, top_y>>
disk_position(peg, disk_index_in_stack, disk_width) ==
    << peg.x - disk_width \div 2,
       peg.base_y - BASE_HEIGHT - (disk_index_in_stack + 1) * DISK_HEIGHT >>

\* mutant: the spacing divides by count instead of count - 1
peg_positions_count(width, margin, count) ==
    LET usable  == width - 2 * margin
        spacing == usable \div count
    IN  [ i \in 1..count |-> margin + (i - 1) * spacing ]

peg_positions(width, margin, count) ==
    LET usable  == width - 2 * margin
        spacing == usable \div (count - 1)
    IN  [ i \in 1..count |-> margin + (i - 1) * spacing ]

\* mutant: the upper limit is the palette size, not twice it
clamp_num_disks_palette(num_disks) == max(1, min(num_disks, Len(DISK_COLORS)))

\* line 281: the clamp of the requested disk count
clamp_num_disks(num_disks) == max(1, min(num_disks, Len(DISK_COLORS) * 2))


(***************************************************************************)
(* State.                                                                  *)
(***************************************************************************)
VARIABLES
    requested,          \* args.num_disks
    screen,             \* <<WINDOW_WIDTH, WINDOW_HEIGHT>>
    max_n,              \* __main__'s max_n
    n,                  \* __main__'s n
    pc,                 \* "main", "run_loop", "lift", "traverse", "lower",
                        \* "crashed" (uncaught exception), "off" (not running)
    pygame_up,          \* pygame is initialized (FALSE after pygame.quit())
    quit_pending,       \* a pygame.QUIT event waits in the event queue
    observed,           \* the poll that last saw pygame.QUIT: "none", "main",
                        \* "run" or "animate"
    err,                \* the exception that ended the process, "" if none
    num_disks,          \* run's parameter
    pegs,               \* run's pegs (empty outside a run)
    moves,              \* run's moves
    total_moves,        \* run's total_moves
    move_counter,       \* run's move_counter
    running,            \* run's running
    src_idx, dst_idx,   \* animate_move's parameters
    disk,               \* animate_move's disk (NoDisk when none is in flight)
    x, y,               \* animate_move's x, y
    carry_y,            \* animate_move's carry_y
    target_left_x,      \* animate_move's target_left_x
    dst_top_y_target,   \* animate_move's dst_top_y_target
    polled,             \* pygame.event.get() ran since the last rendered frame
    frame_polled,       \* ... and had run when the last in-flight frame of
                        \* this move was rendered
    last_call,          \* <<pegs, src_idx, dst_idx>> as animate_move was last
                        \* called in this run, <<>> before the first call
    fn_pc,              \* a function applied on its own: "idle", "call", "done"
    fn_args,            \* its arguments
    fn_ret,             \* its result
    frames              \* the generator's suspended frames <<n, src, aux, dst, at>>

vars ==
    << requested, screen, max_n, n, pc, pygame_up, quit_pending, observed, err,
       num_disks, pegs, moves, total_moves, move_counter, running,
       src_idx, dst_idx, disk, x, y, carry_y, target_left_x, dst_top_y_target,
       polled, frame_polled, last_call, fn_pc, fn_args, fn_ret, frames >>

\* the variables of the process, of a run's scene, of one move, of a lone call
procVars == << requested, screen, max_n >>
sceneVars == << num_disks, pegs, moves, total_moves, move_counter, running >>
moveVars ==
    << src_idx, dst_idx, disk, x, y, carry_y, target_left_x, dst_top_y_target >>
fnVars == << fn_pc, fn_args, fn_ret, frames >>
\* what the model records about the polls and the calls
histVars == << polled, frame_polled, last_call >>

WINDOW_WIDTH == screen[1]
WINDOW_HEIGHT == screen[2]

(***************************************************************************)
(* __main__ and run().                                                     *)
(***************************************************************************)
\* no run is active: run's and animate_move's locals do not exist
NoScene ==
    /\ num_disks = 0 /\ pegs = <<>> /\ moves = <<>> /\ total_moves = 0
    /\ move_counter = 0 /\ running = FALSE

NoMove ==
    /\ src_idx = 0 /\ dst_idx = 0 /\ disk = NoDisk /\ x = 0 /\ y = 0
    /\ carry_y = 0 /\ target_left_x = 0 /\ dst_top_y_target = 0

NoCall ==
    /\ fn_pc = "idle" /\ fn_args = <<>> /\ fn_ret = <<>> /\ frames = <<>>

\* lines 279-282, after pygame.init() (line 7) and the display query (8-12)
Init ==
    /\ requested \in RequestedDisks
    /\ screen \in Screens
    /\ max_n = clamp_num_disks(requested)
    /\ n = 1
    /\ pc = "main"
    /\ pygame_up = TRUE
    /\ quit_pending = FALSE
    /\ observed = "none"
    /\ err = ""
    /\ NoScene
    /\ NoMove
    /\ NoCall
    /\ polled = FALSE
    /\ frame_polled = TRUE
    /\ last_call = <<>>

\* the user asks to close the window: the window system queues pygame.QUIT
CloseRequest ==
    /\ pc \notin {"crashed", "off"}
    /\ pygame_up
    /\ ~quit_pending
    /\ quit_pending' = TRUE
    /\ UNCHANGED << requested, screen, max_n, n, pc, pygame_up, observed, err >>
    /\ UNCHANGED << sceneVars, moveVars, histVars, fnVars >>

\* lines 236-242: the pegs of run(nd), all nd disks on peg 0, largest first
initial_pegs(nd) ==
    LET xs     == peg_positions(WINDOW_WIDTH, MARGIN + 40, PEG_COUNT)
        base_y == WINDOW_HEIGHT - MARGIN * 2
        empty  == [ i \in 1..PEG_COUNT |-> Peg(xs[i], base_y) ]
    IN  [ empty EXCEPT ![1].stack = [ k \in 1..nd |-> Disk(nd - k, nd) ] ]

\* an uncaught exception ends the process
Raise(e) ==
    /\ pc' = "crashed"
    /\ err' = e

\* run returns to __main__ (its locals are dropped), lines 289-290
ReturnFromRun ==
    /\ n' = (n + 1) % (max_n + 1)
    /\ pc' = "main"
    /\ num_disks' = 0 /\ pegs' = <<>> /\ moves' = <<>> /\ total_moves' = 0
    /\ move_counter' = 0 /\ running' = FALSE
    /\ src_idx' = 0 /\ dst_idx' = 0 /\ disk' = NoDisk /\ x' = 0 /\ y' = 0
    /\ carry_y' = 0 /\ target_left_x' = 0 /\ dst_top_y_target' = 0
    /\ frame_polled' = TRUE
    /\ last_call' = <<>>

\* one iteration of `while True` up to run's first frame: the event poll
\* (lines 285-287), then run(n) through draw_scene (lines 230-252).  After
\* pygame.quit() the font module is shut down and pygame.font.SysFont
\* (line 233) raises pygame.error before any peg is built.
MainLoop ==
    /\ pc = "main"
    /\ quit_pending' = FALSE
    /\ IF quit_pending
       THEN /\ pygame_up' = FALSE
            /\ observed' = "main"
            /\ Raise("pygame.error")
            /\ polled' = TRUE
            /\ UNCHANGED << n, sceneVars, moveVars >>
       ELSE /\ num_disks' = n
            /\ polled' = FALSE
            /\ pegs' = initial_pegs(n)
            /\ moves' = hanoi_moves(n, 0, 1, 2)
            /\ total_moves' = Len(hanoi_moves(n, 0, 1, 2))
            /\ move_counter' = 0
            /\ running' = TRUE
            /\ pc' = "run_loop"
            /\ UNCHANGED << n, pygame_up, observed, err, moveVars >>
    /\ UNCHANGED << procVars, frame_polled, last_call, fnVars >>

\* animate_move(..., src_idx = s, dst_idx = d, ...) up to its first loop
\* (lines 141-156): the pop, the starting position, the carry height
animate_move_begin(s, d) ==
    LET src_peg == pegs[s + 1]
        len     == Len(src_peg.stack)
        pos     == disk_position(src_peg, len - 1, src_peg.stack[len].width)
    IN  IF len = 0
        THEN \* list.pop() on an empty list raises IndexError
             /\ Raise("IndexError")
             /\ UNCHANGED << pegs, moveVars, frame_polled, last_call >>
        ELSE /\ src_idx' = s
             /\ dst_idx' = d
             /\ disk' = src_peg.stack[len]
             /\ pegs' = [ pegs EXCEPT ![s + 1].stack =
                              SubSeq(src_peg.stack, 1, len - 1) ]
             /\ x' = pos[1]
             /\ y' = pos[2]
             /\ carry_y' = src_peg.base_y - BASE_HEIGHT - PEG_HEIGHT
                           - LIFT_HEIGHT
             /\ pc' = "lift"
             /\ frame_polled' = TRUE
             /\ last_call' = << pegs, s, d >>
             /\ UNCHANGED << err, target_left_x, dst_top_y_target >>

\* one iteration of run's `while running` up to the lift: the event poll
\* (lines 256-258), then either the start of animate_move for
\* moves[move_counter] (lines 260-262, 141-156) or the else branch
\* (lines 266-268)
RunLoop ==
    /\ pc = "run_loop"
    /\ running
    /\ quit_pending' = FALSE
    /\ observed' = IF quit_pending THEN "run" ELSE observed
    /\ polled' = TRUE
    /\ IF move_counter < total_moves
       THEN /\ running' = IF quit_pending THEN FALSE ELSE running
            /\ animate_move_begin(moves[move_counter + 1][1],
                                  moves[move_counter + 1][2])
            /\ UNCHANGED << n, num_disks, moves, total_moves, move_counter >>
       ELSE /\ running' = FALSE
            /\ UNCHANGED << n, pc, err, num_disks, pegs, moves, total_moves,
                            move_counter, moveVars, frame_polled, last_call >>
    /\ UNCHANGED << procVars, pygame_up, fnVars >>

\* `while running` finds running false: run returns and __main__ steps n
\* (lines 289-290)
RunReturn ==
    /\ pc = "run_loop"
    /\ ~running
    /\ ReturnFromRun
    /\ UNCHANGED << procVars, pygame_up, quit_pending, observed, err, polled,
                    fnVars >>

(***************************************************************************)
(* animate_move, one action per rendered frame.                            *)
(***************************************************************************)
\* the lift loop, were line 158 `y = max(carry_y, y)`
LiftFrameStalls ==
    /\ pc = "lift"
    /\ y > carry_y
    /\ y' = max(carry_y, y)
    /\ frame_polled' = polled
    /\ polled' = FALSE
    /\ UNCHANGED << procVars, n, pc, pygame_up, quit_pending, observed, err >>
    /\ UNCHANGED << sceneVars, src_idx, dst_idx, disk, x, carry_y,
                    target_left_x, dst_top_y_target, last_call, fnVars >>

\* one pass of the lift loop (lines 157-160); the lift polls no events
LiftFrame ==
    /\ pc = "lift"
    /\ y > carry_y
    /\ y' = max(carry_y, y - V_SPEED)
    /\ frame_polled' = polled
    /\ polled' = FALSE
    /\ UNCHANGED << procVars, n, pc, pygame_up, quit_pending, observed, err >>
    /\ UNCHANGED << sceneVars, src_idx, dst_idx, disk, x, carry_y,
                    target_left_x, dst_top_y_target, last_call, fnVars >>

\* the lift loop ends; the traverse target is computed (lines 163-166)
LiftEnd ==
    /\ pc = "lift"
    /\ ~(y > carry_y)
    /\ target_left_x' = pegs[dst_idx + 1].x - disk.width \div 2
    /\ pc' = "traverse"
    /\ UNCHANGED << procVars, n, pygame_up, quit_pending, observed, err >>
    /\ UNCHANGED << sceneVars, src_idx, dst_idx, disk, x, y, carry_y,
                    dst_top_y_target, histVars, fnVars >>

\* the traverse loop, were its condition `abs(x - target_left_x) > 0`
TraverseFrameLate ==
    /\ pc = "traverse"
    /\ abs(x - target_left_x) > 0
    /\ quit_pending' = FALSE
    /\ x' = x + (IF target_left_x > x THEN 1 ELSE -1) * H_SPEED
    /\ IF quit_pending
       THEN /\ pygame_up' = FALSE
            /\ observed' = "animate"
            /\ Raise("pygame.error")
            /\ polled' = TRUE
            /\ UNCHANGED frame_polled
       ELSE /\ frame_polled' = TRUE
            /\ polled' = FALSE
            /\ UNCHANGED << pc, pygame_up, observed, err >>
    /\ UNCHANGED << procVars, n, sceneVars, src_idx, dst_idx, disk, y, carry_y,
                    target_left_x, dst_top_y_target, last_call, fnVars >>

\* one pass of the traverse loop (lines 167-174).  A pygame.QUIT event makes
\* the poll call pygame.quit(); the loop goes on, and draw_temporary then
\* raises pygame.error on the display that was shut down.
TraverseFrame ==
    /\ pc = "traverse"
    /\ abs(x - target_left_x) > H_SPEED
    /\ quit_pending' = FALSE
    /\ x' = x + (IF target_left_x > x THEN 1 ELSE -1) * H_SPEED
    /\ IF quit_pending
       THEN /\ pygame_up' = FALSE
            /\ observed' = "animate"
            /\ Raise("pygame.error")
            /\ polled' = TRUE
            /\ UNCHANGED frame_polled
       ELSE /\ frame_polled' = TRUE
            /\ polled' = FALSE
            /\ UNCHANGED << pc, pygame_up, observed, err >>
    /\ UNCHANGED << procVars, n, sceneVars, src_idx, dst_idx, disk, y, carry_y,
                    target_left_x, dst_top_y_target, last_call, fnVars >>

\* the traverse loop ends: the snap frame (lines 175-177) and the lower
\* target (line 180)
TraverseSnap ==
    /\ pc = "traverse"
    /\ ~(abs(x - target_left_x) > H_SPEED)
    /\ x' = target_left_x
    /\ dst_top_y_target' =
           disk_position(pegs[dst_idx + 1], Len(pegs[dst_idx + 1].stack),
                         disk.width)[2]
    /\ pc' = "lower"
    /\ frame_polled' = polled
    /\ polled' = FALSE
    /\ UNCHANGED << procVars, n, pygame_up, quit_pending, observed, err >>
    /\ UNCHANGED << sceneVars, src_idx, dst_idx, disk, y, carry_y,
                    target_left_x, last_call, fnVars >>

\* one pass of the lower loop (lines 181-187), polling like the traverse
LowerFrame ==
    /\ pc = "lower"
    /\ y < dst_top_y_target
    /\ quit_pending' = FALSE
    /\ y' = min(dst_top_y_target, y + V_SPEED)
    /\ IF quit_pending
       THEN /\ pygame_up' = FALSE
            /\ observed' = "animate"
            /\ Raise("pygame.error")
            /\ polled' = TRUE
            /\ UNCHANGED frame_polled
       ELSE /\ frame_polled' = TRUE
            /\ polled' = FALSE
            /\ UNCHANGED << pc, pygame_up, observed, err >>
    /\ UNCHANGED << procVars, n, sceneVars, src_idx, dst_idx, disk, x, carry_y,
                    target_left_x, dst_top_y_target, last_call, fnVars >>

\* the end of the lower loop, were line 190 missing
PlaceDiskDropped ==
    /\ pc = "lower"
    /\ ~(y < dst_top_y_target)
    /\ move_counter' = move_counter + 1
    /\ pc' = "run_loop"
    /\ src_idx' = 0 /\ dst_idx' = 0 /\ disk' = NoDisk /\ x' = 0 /\ y' = 0
    /\ carry_y' = 0 /\ target_left_x' = 0 /\ dst_top_y_target' = 0
    /\ polled' = FALSE
    /\ UNCHANGED << n, num_disks, pegs, moves, total_moves, running >>
    /\ UNCHANGED << procVars, pygame_up, quit_pending, observed, err,
                    frame_polled, last_call, fnVars >>

\* the end of the lower loop, were line 263 `move_counter += 2`
PlaceDiskCountsTwo ==
    /\ pc = "lower"
    /\ ~(y < dst_top_y_target)
    /\ pegs' = [ pegs EXCEPT ![dst_idx + 1].stack = Append(@, disk) ]
    /\ move_counter' = move_counter + 2
    /\ pc' = "run_loop"
    /\ src_idx' = 0 /\ dst_idx' = 0 /\ disk' = NoDisk /\ x' = 0 /\ y' = 0
    /\ carry_y' = 0 /\ target_left_x' = 0 /\ dst_top_y_target' = 0
    /\ polled' = FALSE
    /\ UNCHANGED << n, num_disks, moves, total_moves, running >>
    /\ UNCHANGED << procVars, pygame_up, quit_pending, observed, err,
                    frame_polled, last_call, fnVars >>

\* the end of the lower loop, were line 190 `src_peg.stack.append(disk)`
PlaceDiskOnSource ==
    /\ pc = "lower"
    /\ ~(y < dst_top_y_target)
    /\ pegs' = [ pegs EXCEPT ![src_idx + 1].stack = Append(@, disk) ]
    /\ move_counter' = move_counter + 1
    /\ pc' = "run_loop"
    /\ src_idx' = 0 /\ dst_idx' = 0 /\ disk' = NoDisk /\ x' = 0 /\ y' = 0
    /\ carry_y' = 0 /\ target_left_x' = 0 /\ dst_top_y_target' = 0
    /\ polled' = FALSE
    /\ UNCHANGED << n, num_disks, moves, total_moves, running >>
    /\ UNCHANGED << procVars, pygame_up, quit_pending, observed, err,
                    frame_polled, last_call, fnVars >>

\* the lower loop ends: the disk is placed (line 190), the pause (193), then
\* run counts the move and draws the scene (lines 263-264)
PlaceDisk ==
    /\ pc = "lower"
    /\ ~(y < dst_top_y_target)
    /\ pegs' = [ pegs EXCEPT ![dst_idx + 1].stack = Append(@, disk) ]
    /\ move_counter' = move_counter + 1
    /\ pc' = "run_loop"
    /\ src_idx' = 0 /\ dst_idx' = 0 /\ disk' = NoDisk /\ x' = 0 /\ y' = 0
    /\ carry_y' = 0 /\ target_left_x' = 0 /\ dst_top_y_target' = 0
    /\ polled' = FALSE
    /\ UNCHANGED << n, num_disks, moves, total_moves, running >>
    /\ UNCHANGED << procVars, pygame_up, quit_pending, observed, err,
                    frame_polled, last_call, fnVars >>

Next ==
    \/ CloseRequest
    \/ MainLoop
    \/ RunLoop
    \/ RunReturn
    \/ LiftFrame
    \/ LiftEnd
    \/ TraverseFrame
    \/ TraverseSnap
    \/ LowerFrame
    \/ PlaceDisk

Spec == Init /\ [][Next]_vars

\* the program when the user never closes the window.  It runs on: every
\* wait it makes (clock.tick, pygame.time.delay) returns.
NextNoClose ==
    \/ MainLoop
    \/ RunLoop
    \/ RunReturn
    \/ LiftFrame
    \/ LiftEnd
    \/ TraverseFrame
    \/ TraverseSnap
    \/ LowerFrame
    \/ PlaceDisk

FairSpecNoClose == Init /\ [][NextNoClose]_vars /\ WF_vars(NextNoClose)

(***************************************************************************)
(* animate_move on its own, called by run(N) for one move.  The scenes     *)
(* are those run(N) is in before a move: every move of the short runs,     *)
(* and the first and the last move of every run up to the largest disk     *)
(* count the clamp admits.  run's list of moves is not materialized here   *)
(* (animate_move does not read it).                                        *)
(***************************************************************************)
\* the scenes of every move are drawn for the runs of 1..MaxMoveDisks disks
MaxMoveDisks == 4

\* a committed move: line 145 (pop from the source) and line 190 (append to
\* the destination)
committed(pg, mv) ==
    LET src_stack == pg[mv[1] + 1].stack
        top       == src_stack[Len(src_stack)]
    IN  [ pg EXCEPT ![mv[1] + 1].stack = SubSeq(src_stack, 1, Len(src_stack) - 1),
                    ![mv[2] + 1].stack = Append(pg[mv[2] + 1].stack, top) ]

\* run(nd)'s pegs after its first k moves
RECURSIVE scene_before(_, _)
scene_before(nd, k) ==
    IF k = 0
    THEN initial_pegs(nd)
    ELSE LET after == { committed(pg, mv) :
                          pg \in { scene_before(nd, k - 1) },
                          mv \in { hanoi_moves(nd, 0, 1, 2)[k] } }
         IN  CHOOSE pg \in after : TRUE

\* the first and the last of hanoi_moves(nd, 0, 1, 2): the smallest disk
\* leaves peg 0 for peg 2 (nd odd) or peg 1 (nd even), and it arrives last on
\* peg 2, from peg 0 (nd odd) or peg 1 (nd even)
first_move(nd) == IF nd % 2 = 1 THEN <<0, 2>> ELSE <<0, 1>>
last_move(nd) == IF nd % 2 = 1 THEN <<0, 2>> ELSE <<1, 2>>

\* run(nd)'s pegs before its last move: all disks but the smallest on peg 2
last_scene(nd) ==
    LET xs     == peg_positions(WINDOW_WIDTH, MARGIN + 40, PEG_COUNT)
        base_y == WINDOW_HEIGHT - MARGIN * 2
        empty  == [ i \in 1..PEG_COUNT |-> Peg(xs[i], base_y) ]
    IN  [ empty EXCEPT
            ![last_move(nd)[1] + 1].stack = << Disk(0, nd) >>,
            ![3].stack = [ k \in 1..(nd - 1) |-> Disk(nd - k, nd) ] ]

InitMove ==
    /\ screen \in Screens
    /\ \E nd \in 1..(Len(DISK_COLORS) * 2) :
          /\ requested = nd
          /\ max_n = clamp_num_disks(nd)
          /\ n = nd
          /\ num_disks = nd
          /\ total_moves = 2 ^ nd - 1
          /\ \/ /\ move_counter = 0
                /\ pegs = initial_pegs(nd)
                /\ src_idx = first_move(nd)[1]
                /\ dst_idx = first_move(nd)[2]
             \/ /\ move_counter = 2 ^ nd - 2
                /\ pegs = last_scene(nd)
                /\ src_idx = last_move(nd)[1]
                /\ dst_idx = last_move(nd)[2]
             \/ /\ nd <= MaxMoveDisks
                /\ move_counter \in 0..(2 ^ nd - 2)
                /\ pegs = scene_before(nd, move_counter)
                /\ src_idx = hanoi_moves(nd, 0, 1, 2)[move_counter + 1][1]
                /\ dst_idx = hanoi_moves(nd, 0, 1, 2)[move_counter + 1][2]
    /\ moves = <<>>
    /\ running = TRUE
    /\ pc = "move_call"
    /\ pygame_up = TRUE
    /\ quit_pending = FALSE
    /\ observed = "none"
    /\ err = ""
    /\ disk = NoDisk /\ x = 0 /\ y = 0
    /\ carry_y = 0 /\ target_left_x = 0 /\ dst_top_y_target = 0
    /\ polled = TRUE
    /\ frame_polled = TRUE
    /\ last_call = <<>>
    /\ NoCall

\* run calls animate_move (line 262): lines 141-156
MoveCall ==
    /\ pc = "move_call"
    /\ animate_move_begin(src_idx, dst_idx)
    /\ UNCHANGED << procVars, n, pygame_up, quit_pending, observed, num_disks,
                    moves, total_moves, move_counter, running, polled,
                    fnVars >>

NextMove ==
    \/ CloseRequest
    \/ MoveCall
    \/ LiftFrame
    \/ LiftEnd
    \/ TraverseFrame
    \/ TraverseSnap
    \/ LowerFrame
    \/ PlaceDisk

SpecMove == InitMove /\ [][NextMove]_vars

\* animate_move runs on: each of its loops draws its next frame after
\* clock.tick returns (lines 160, 174, 187).  Nothing obliges the user to
\* close the window.
AnimateStep ==
    MoveCall \/ LiftFrame \/ LiftEnd \/ TraverseFrame \/ TraverseSnap
        \/ LowerFrame \/ PlaceDisk

FairSpecMove == SpecMove /\ WF_vars(AnimateStep)

(***************************************************************************)
(* The pure functions applied on their own.  No process runs: the          *)
(* variables of __main__, run and animate_move keep their idle values.     *)
(***************************************************************************)
NoProcess ==
    /\ requested = 0 /\ screen = <<0, 0>> /\ max_n = 0 /\ n = 0
    /\ pc = "off" /\ pygame_up = FALSE /\ quit_pending = FALSE
    /\ observed = "none" /\ err = ""
    /\ NoScene
    /\ NoMove
    /\ polled = FALSE /\ frame_polled = TRUE /\ last_call = <<>>

mainVars ==
    << procVars, n, pc, pygame_up, quit_pending, observed, err, sceneVars,
       moveVars, histVars >>

\* ---- line 281: max_n = max(1, min(args.num_disks, len(DISK_COLORS) * 2))
ClampInputs == (0 - MaxExcess)..(Len(DISK_COLORS) * 2 + MaxExcess)

InitClamp ==
    /\ NoProcess
    /\ fn_pc = "call"
    /\ fn_args \in { <<r>> : r \in ClampInputs }
    /\ fn_ret = <<>>
    /\ frames = <<>>

ApplyClamp ==
    /\ fn_pc = "call"
    /\ fn_ret' = << clamp_num_disks(fn_args[1]) >>
    /\ fn_pc' = "done"
    /\ UNCHANGED << mainVars, fn_args, frames >>

NextClamp == ApplyClamp

SpecClamp == InitClamp /\ [][NextClamp]_vars

\* ---- Disk(size_index, total_disks), as run calls it (lines 241-242)
DiskInputs ==
    { <<i, t>> : i \in 0..(MaxTotalDisks - 1), t \in 1..MaxTotalDisks }

InitDisk ==
    /\ NoProcess
    /\ fn_pc = "call"
    /\ fn_args \in { a \in DiskInputs : a[1] < a[2] }
    /\ fn_ret = <<>>
    /\ frames = <<>>

ApplyDisk ==
    /\ fn_pc = "call"
    /\ fn_ret' = << Disk(fn_args[1], fn_args[2]).width >>
    /\ fn_pc' = "done"
    /\ UNCHANGED << mainVars, fn_args, frames >>

NextDisk == ApplyDisk

SpecDisk == InitDisk /\ [][NextDisk]_vars

\* ---- peg_positions(width, margin, count)
PegWidths == (0..MaxPegWidth) \cup {1000} \cup { s[1] : s \in Screens }
PegMargins == (0..MaxPegMargin) \cup {MARGIN, MARGIN + 40}

InitPegs ==
    /\ NoProcess
    /\ fn_pc = "call"
    /\ fn_args \in { a \in PegWidths \X PegMargins \X (2..MaxPegCount) :
                       a[1] >= 2 * a[2] }
    /\ fn_ret = <<>>
    /\ frames = <<>>

ApplyPegPositions ==
    /\ fn_pc = "call"
    /\ fn_ret' = peg_positions(fn_args[1], fn_args[2], fn_args[3])
    /\ fn_pc' = "done"
    /\ UNCHANGED << mainVars, fn_args, frames >>

NextPegs == ApplyPegPositions

SpecPegs == InitPegs /\ [][NextPegs]_vars

(***************************************************************************)
(* list(hanoi_moves(n, src, aux, dst)): the generator run to exhaustion.   *)
(* frames is the chain of suspended generator frames, innermost last; a    *)
(* frame is <<n, src, aux, dst, at>>, at naming the statement it stands    *)
(* at: "start" (line 72), "first" (inside line 74), "yielded" (after line  *)
(* 75), "second" (inside line 76).  fn_ret collects the yielded moves.     *)
(***************************************************************************)
PegTriples ==
    { t \in (0..2) \X (0..2) \X (0..2) :
        t[1] # t[2] /\ t[1] # t[3] /\ t[2] # t[3] }

InitHanoi ==
    /\ NoProcess
    /\ fn_pc = "call"
    /\ fn_args \in { <<k, t[1], t[2], t[3]>> : k \in 0..MaxHanoiN, t \in PegTriples }
    /\ fn_ret = <<>>
    /\ frames = <<>>

top_frame == frames[Len(frames)]
pop_frame == SubSeq(frames, 1, Len(frames) - 1)
at_frame(f, at) == << f[1], f[2], f[3], f[4], at >>

\* list() takes the generator: its body starts at line 72
GenCall ==
    /\ fn_pc = "call"
    /\ frames' = << at_frame(fn_args, "start") >>
    /\ fn_pc' = "gen"
    /\ UNCHANGED << mainVars, fn_args, fn_ret >>

\* lines 72-73: n <= 0, the generator returns without yielding
GenBase ==
    /\ fn_pc = "gen" /\ frames # <<>>
    /\ top_frame[5] = "start"
    /\ top_frame[1] <= 0
    /\ frames' = pop_frame
    /\ UNCHANGED << mainVars, fn_pc, fn_args, fn_ret >>

\* line 74: yield from hanoi_moves(n - 1, src, dst, aux)
GenFirst ==
    /\ fn_pc = "gen" /\ frames # <<>>
    /\ top_frame[5] = "start"
    /\ top_frame[1] > 0
    /\ frames' = Append(pop_frame, at_frame(top_frame, "first"))
                 \o << << top_frame[1] - 1, top_frame[2], top_frame[4],
                          top_frame[3], "start" >> >>
    /\ UNCHANGED << mainVars, fn_pc, fn_args, fn_ret >>

\* line 75: yield src, dst (the inner generator of line 74 is exhausted)
GenYield ==
    /\ fn_pc = "gen" /\ frames # <<>>
    /\ top_frame[5] = "first"
    /\ fn_ret' = Append(fn_ret, << top_frame[2], top_frame[4] >>)
    /\ frames' = Append(pop_frame, at_frame(top_frame, "yielded"))
    /\ UNCHANGED << mainVars, fn_pc, fn_args >>

\* mutant: line 76 is missing, the generator returns after its yield
GenSecondMissing ==
    /\ fn_pc = "gen" /\ frames # <<>>
    /\ top_frame[5] = "yielded"
    /\ frames' = pop_frame
    /\ UNCHANGED << mainVars, fn_pc, fn_args, fn_ret >>

\* line 76: yield from hanoi_moves(n - 1, aux, src, dst)
GenSecond ==
    /\ fn_pc = "gen" /\ frames # <<>>
    /\ top_frame[5] = "yielded"
    /\ frames' = Append(pop_frame, at_frame(top_frame, "second"))
                 \o << << top_frame[1] - 1, top_frame[3], top_frame[2],
                          top_frame[4], "start" >> >>
    /\ UNCHANGED << mainVars, fn_pc, fn_args, fn_ret >>

\* the end of the body after line 76: the generator returns
GenReturn ==
    /\ fn_pc = "gen" /\ frames # <<>>
    /\ top_frame[5] = "second"
    /\ frames' = pop_frame
    /\ UNCHANGED << mainVars, fn_pc, fn_args, fn_ret >>

\* the outermost generator is exhausted: list() returns the moves
GenDone ==
    /\ fn_pc = "gen" /\ frames = <<>>
    /\ fn_pc' = "done"
    /\ UNCHANGED << mainVars, fn_args, fn_ret, frames >>

NextHanoi ==
    \/ GenCall
    \/ GenBase
    \/ GenFirst
    \/ GenYield
    \/ GenSecond
    \/ GenReturn
    \/ GenDone

SpecHanoi == InitHanoi /\ [][NextHanoi]_vars

(***************************************************************************)
(* Properties.                                                             *)
(***************************************************************************)
RECURSIVE Pow2(_)
Pow2(k) == IF k <= 0 THEN 1 ELSE 2 * Pow2(k - 1)

InFlight == pc \in {"lift", "traverse", "lower"}

\* the stack run builds on peg 0 for nd disks, bottom first
FullStack(nd) == [ k \in 1..nd |-> Disk(nd - k, nd) ]

SameSeq(s, t) == Len(s) = Len(t) /\ \A k \in 1..Len(s) : s[k] = t[k]

\* C1: during the replay of hanoi_moves(N, 0, 1, 2) by run, in every state
\* (also between moves and while a disk is in flight): no pop has hit an
\* empty stack, the disk in flight is narrower than the top of the stack it
\* goes to, and every peg's stack is strictly narrower towards the top.
LegalReplay ==
    /\ err # "IndexError"
    /\ \A p \in 1..Len(pegs) :
          \A k \in 1..(Len(pegs[p].stack) - 1) :
              pegs[p].stack[k].width > pegs[p].stack[k + 1].width
    /\ InFlight =>
          LET st == pegs[dst_idx + 1].stack
          IN  Len(st) = 0 \/ st[Len(st)].width > disk.width

\* a disk is being lowered onto a non-empty stack during the run of 3 disks
LegalReplayWitness ==
    /\ pc = "lower"
    /\ num_disks = 3
    /\ Len(pegs[dst_idx + 1].stack) = 2

\* C2: when run has replayed all its moves (N >= 1), pegs 0 and 1 are empty
\* and peg 2 holds all N disks, largest at the bottom.
ReplayEndsOnPeg2 ==
    (pc = "run_loop" /\ num_disks >= 1 /\ move_counter = total_moves) =>
        /\ Len(pegs[1].stack) = 0
        /\ Len(pegs[2].stack) = 0
        /\ SameSeq(pegs[3].stack, FullStack(num_disks))
        /\ \A k \in 1..(num_disks - 1) :
              pegs[3].stack[k].width > pegs[3].stack[k + 1].width

\* the run of 3 disks has replayed its 7 moves
ReplayEndsWitness ==
    /\ pc = "run_loop"
    /\ num_disks = 3
    /\ move_counter = 7
    /\ Len(pegs[3].stack) = 3

\* C3: for n >= 0 and three distinct pegs, the materialized generator holds
\* exactly 2^n - 1 moves (none for n = 0), and so does the list run takes.
MoveCount ==
    fn_pc = "done" =>
        /\ Len(fn_ret) = Pow2(fn_args[1]) - 1
        /\ Len(hanoi_moves(fn_args[1], fn_args[2], fn_args[3], fn_args[4]))
           = Pow2(fn_args[1]) - 1

\* the generator for 3 disks from peg 2 to peg 1 is exhausted after 7 moves
MoveCountWitness ==
    /\ fn_pc = "done"
    /\ fn_args = <<3, 2, 0, 1>>
    /\ Len(fn_ret) = 7

\* C4: when no window-close request interferes, the run after the run of N
\* uses N + 1 and the run after the run of the maximum uses 1: the next disk
\* count n, and the disk count of every run that was started, lie in
\* 1..max_n, max_n being the request clamped to 1..24.
RunCountInRange ==
    (observed = "none" /\ pc \notin {"crashed", "off"}) =>
        /\ max_n = clamp_num_disks(requested)
        /\ n \in 1..max_n
        /\ pc # "main" => num_disks \in 1..max_n

\* C5: once a poll has seen a window-close request, no run is started.
NoRunAfterClose ==
    [][observed # "none" => ~(pc = "main" /\ pc' = "run_loop")]_vars

\* C6: while a move is animated (a disk was popped and is not yet placed),
\* no poll of this run has seen a window-close request: run's running is
\* still true and pygame was not shut down.
CloseShortCircuitsRun ==
    InFlight => (running /\ pygame_up)

\* C7: the materialized generator for n = 3 on pegs 0, 1, 2 is the 7 moves
\* (0,2),(0,1),(2,1),(0,2),(1,0),(1,2),(0,2), and run's list is the same;
\* for n >= 1 the moves are those of (n-1, src, dst, aux), then (src, dst),
\* then those of (n-1, aux, src, dst).
MoveSequence ==
    fn_pc = "done" =>
        LET k == fn_args[1]
            s == fn_args[2]
            a == fn_args[3]
            d == fn_args[4]
        IN  /\ fn_args = <<3, 0, 1, 2>> =>
                 /\ fn_ret = << <<0, 2>>, <<0, 1>>, <<2, 1>>, <<0, 2>>,
                                <<1, 0>>, <<1, 2>>, <<0, 2>> >>
                 /\ hanoi_moves(3, 0, 1, 2) = fn_ret
            /\ k >= 1 =>
                 fn_ret = hanoi_moves(k - 1, s, d, a)
                          \o << <<s, d>> >>
                          \o hanoi_moves(k - 1, a, s, d)

\* the generator for 3 disks on pegs 0, 1, 2 is exhausted, (0,2) first
MoveSequenceWitness ==
    /\ fn_pc = "done"
    /\ fn_args = <<3, 0, 1, 2>>
    /\ Len(fn_ret) = 7
    /\ fn_ret[1] = <<0, 2>>

\* C8: the requested disk count is clamped: below 1 it gives 1, above
\* twice the palette size (24) it gives 24, within 1..24 it is kept.
ClampedRequest ==
    fn_pc = "done" =>
        LET r == fn_args[1]
            e == fn_ret[1]
        IN  /\ Len(DISK_COLORS) * 2 = 24
            /\ r < 1 => e = 1
            /\ r > 24 => e = 24
            /\ r \in 1..24 => e = r

\* a request of 25 was clamped to 24
ClampedRequestWitness ==
    /\ fn_pc = "done"
    /\ fn_args = <<25>>
    /\ fn_ret = <<24>>

\* C9 as stated: for total_disks > 1 the width is 70 at size_index 0,
\* 240 at size_index total_disks - 1, and strictly increasing in size_index.
DiskWidthStrict ==
    (fn_pc = "done" /\ fn_args[2] > 1) =>
        /\ fn_args[1] = 0 => fn_ret[1] = DISK_MIN_WIDTH
        /\ fn_args[1] = fn_args[2] - 1 => fn_ret[1] = DISK_MAX_WIDTH
        /\ fn_args[1] > 0 =>
              Disk(fn_args[1] - 1, fn_args[2]).width < fn_ret[1]

\* C9 amended: for total_disks > 1 the width is 70 at size_index 0, 240 at
\* size_index total_disks - 1 and never decreasing in size_index; it is
\* strictly increasing when total_disks <= 171 (one pixel per rank at
\* least), which covers every run (total_disks <= 24).
DiskWidthMonotone ==
    (fn_pc = "done" /\ fn_args[2] > 1) =>
        /\ fn_args[1] = 0 => fn_ret[1] = DISK_MIN_WIDTH
        /\ fn_args[1] = fn_args[2] - 1 => fn_ret[1] = DISK_MAX_WIDTH
        /\ fn_args[1] > 0 =>
              /\ Disk(fn_args[1] - 1, fn_args[2]).width <= fn_ret[1]
              /\ fn_args[2] - 1 <= DISK_MAX_WIDTH - DISK_MIN_WIDTH =>
                    Disk(fn_args[1] - 1, fn_args[2]).width < fn_ret[1]

\* the widest of 5 disks is 240 wide
DiskWidthWitness ==
    /\ fn_pc = "done"
    /\ fn_args = <<4, 5>>
    /\ fn_ret = <<240>>

\* C10 as stated: count coordinates, peg i at margin + i * spacing with
\* spacing = (width - 2*margin) / (count - 1) exactly, the first margin and
\* the last width - margin; the middle of (1000, 100, 3) halfway.
PegsSpanWidth ==
    fn_pc = "done" =>
        LET width  == fn_args[1]
            margin == fn_args[2]
            count  == fn_args[3]
        IN  /\ Len(fn_ret) = count
            /\ fn_ret[1] = margin
            /\ fn_ret[count] = width - margin
            /\ \A i \in 1..count :
                  (fn_ret[i] - margin) * (count - 1)
                  = (i - 1) * (width - 2 * margin)
            /\ fn_args = <<1000, 100, 3>> =>
                  2 * fn_ret[2] = fn_ret[1] + fn_ret[3]

\* C10 amended: count coordinates, peg i at margin + i * spacing with
\* spacing = (width - 2*margin) divided by (count - 1) and rounded down, so
\* the first is margin and the last is width - margin less the remainder of
\* that division (width - margin when count - 1 divides width - 2*margin);
\* (1000, 100, 3) gives 100, 500, 900.
PegsEvenlySpaced ==
    fn_pc = "done" =>
        LET width  == fn_args[1]
            margin == fn_args[2]
            count  == fn_args[3]
            usable == width - 2 * margin
            step   == fn_ret[2] - fn_ret[1]
        IN  /\ Len(fn_ret) = count
            /\ fn_ret[1] = margin
            /\ step * (count - 1) <= usable
            /\ usable < (step + 1) * (count - 1)
            /\ \A i \in 1..(count - 1) : fn_ret[i + 1] - fn_ret[i] = step
            /\ fn_ret[count] = width - margin - (usable % (count - 1))
            /\ fn_args = <<1000, 100, 3>> => SameSeq(fn_ret, <<100, 500, 900>>)

\* a width that count - 1 does not divide: the last peg stops short
PegsEvenlySpacedWitness ==
    /\ fn_pc = "done"
    /\ fn_args = <<11, 2, 3>>
    /\ SameSeq(fn_ret, <<2, 5, 8>>)

\* C11: in every move of every run with 1 to 24 disks the lift phase raises
\* the disk to the carry height without passing it: the disk is never above
\* the carry height while it is lifted, and it is at the carry height when
\* the lift ends and in every frame of the traverse.
LiftReachesCarry ==
    /\ pc = "lift" => y >= carry_y
    /\ pc = "traverse" => y = carry_y

\* C12: in every move of every run with 1 to 24 disks the lower phase ends,
\* where the disk is about to be appended to the destination stack of k
\* disks, with the top of the disk at base_y - BASE_HEIGHT - (k+1)*DISK_HEIGHT.
LowerReachesSlot ==
    (pc = "lower" /\ ~(y < dst_top_y_target)) =>
        LET dst_peg == pegs[dst_idx + 1]
        IN  y = dst_peg.base_y - BASE_HEIGHT
                - (Len(dst_peg.stack) + 1) * DISK_HEIGHT

DisksOf(nd) == { FullStack(nd)[k] : k \in 1..nd }
StackedDisks ==
    UNION { { pegs[p].stack[k] : k \in 1..Len(pegs[p].stack) } :
            p \in 1..Len(pegs) }
StackedCount ==
    Len(pegs[1].stack) + Len(pegs[2].stack) + Len(pegs[3].stack)

\* C14: the source's top disk is popped before the first in-flight frame of
\* a move and appended to the destination after the last.  While the frames
\* are drawn the moving disk is in no stack and the stacks do not change;
\* between moves no disk is in flight.  Each of the N disks is at all times
\* in exactly one place, a stack or the one in-flight slot.
OneDiskInFlight ==
    /\ [] /\ InFlight =>
               /\ disk # NoDisk
               /\ disk \notin StackedDisks
               /\ StackedCount = num_disks - 1
               /\ StackedDisks \cup { disk } = DisksOf(num_disks)
          /\ pc = "run_loop" =>
               /\ disk = NoDisk
               /\ StackedCount = num_disks
               /\ StackedDisks = DisksOf(num_disks)
    /\ [][ /\ (InFlight /\ pc' # "run_loop") => (pegs' = pegs /\ disk' = disk)
           /\ (pc = "run_loop" /\ InFlight') =>
                 /\ pc' = "lift"
                 /\ Len(pegs'[src_idx' + 1].stack)
                       = Len(pegs[src_idx' + 1].stack) - 1
           /\ (InFlight /\ pc' = "run_loop") =>
                 /\ pc = "lower"
                 /\ Len(pegs'[dst_idx + 1].stack)
                       = Len(pegs[dst_idx + 1].stack) + 1 ]_vars

\* the widest of 3 disks is being lowered onto peg 2, the other two wait on
\* peg 1
OneDiskInFlightWitness ==
    /\ pc = "lower"
    /\ num_disks = 3
    /\ disk = Disk(2, 3)
    /\ dst_idx = 2
    /\ Len(pegs[1].stack) = 0 /\ Len(pegs[2].stack) = 2 /\ Len(pegs[3].stack) = 0

\* run is between its setup and its return
InRun == pc = "run_loop" \/ InFlight

\* C15: run's move counter starts at 0, never decreases, stays within
\* 0..total_moves and grows by exactly one as each move is committed (and
\* only then); the move animated while the counter is k is moves[k] (the
\* k+1-th of the sequence).
MoveCounterTracks ==
    /\ [] (InRun =>
             /\ 0 <= move_counter
             /\ move_counter <= total_moves
             /\ total_moves = Len(moves)
             /\ InFlight =>
                   /\ move_counter < total_moves
                   /\ << src_idx, dst_idx >> = moves[move_counter + 1])
    /\ [][ /\ (~InRun /\ InRun') => move_counter' = 0
           /\ (InRun /\ InRun') =>
                 /\ moves' = moves
                 /\ IF pc = "lower" /\ pc' = "run_loop"
                    THEN move_counter' = move_counter + 1
                    ELSE move_counter' = move_counter ]_vars

\* the fourth move of run(3), counter 3, is under way: the widest disk goes
\* from peg 0 to peg 2
MoveCounterWitness ==
    /\ pc = "traverse"
    /\ num_disks = 3
    /\ move_counter = 3
    /\ moves[4] = << 0, 2 >>
    /\ src_idx = 0 /\ dst_idx = 2
    /\ disk = Disk(2, 3)

\* C16: a close request is polled once per rendered frame: every in-flight
\* frame of the lift, the traverse and the lower phase is drawn after an
\* event poll that no other frame was drawn after, and every iteration of
\* run's loop polls before it animates.
PollBeforeFrame ==
    /\ InFlight => frame_polled
    /\ (pc = "lift" /\ y = disk_position(last_call[1][src_idx + 1],
                                         Len(pegs[src_idx + 1].stack),
                                         disk.width)[2]) => polled

\* run has committed all its moves and is about to return
RunDone ==
    /\ pc = "run_loop"
    /\ ~running
    /\ move_counter = total_moves
    /\ total_moves = Pow2(num_disks) - 1

MoveFrameEffect ==
    (pc = "run_loop" /\ last_call # <<>>) =>
        LET before     == last_call[1]
            s          == last_call[2] + 1
            d          == last_call[3] + 1
            src_before == before[s].stack
            moved      == src_before[Len(src_before)]
        IN  /\ << last_call[2], last_call[3] >> = moves[move_counter]
            /\ s # d
            /\ Len(pegs) = Len(before)
            /\ Len(pegs[s].stack) = Len(src_before) - 1
            /\ \A k \in 1..Len(pegs[s].stack) : pegs[s].stack[k] = src_before[k]
            /\ Len(pegs[d].stack) = Len(before[d].stack) + 1
            /\ \A k \in 1..Len(before[d].stack) :
                  pegs[d].stack[k] = before[d].stack[k]
            /\ pegs[d].stack[Len(pegs[d].stack)] = moved
            /\ \A p \in 1..Len(pegs) :
                  /\ pegs[p].x = before[p].x
                  /\ pegs[p].base_y = before[p].base_y
                  /\ p \notin { s, d } => SameSeq(pegs[p].stack, before[p].stack)

\* the fourth move of run(3) is committed: the widest disk has gone from
\* peg 0 to peg 2, the other two stay on peg 1
MoveFrameEffectWitness ==
    /\ pc = "run_loop"
    /\ num_disks = 3
    /\ move_counter = 4
    /\ last_call # <<>>
    /\ last_call[2] = 0 /\ last_call[3] = 2
    /\ Len(last_call[1][1].stack) = 1
    /\ SameSeq(pegs[3].stack, << Disk(2, 3) >>)
    /\ Len(pegs[2].stack) = 2

====
